---- MODULE Spec2Model ----
(***************************************************************************)
(* A model of @xcvzmoon/express-utils: the Zod validation adapters         *)
(* (readValidatedQuery, readValidatedParams), the multipart extractor      *)
(* (readMultipartFormData) and the SSE channel (createServerSentEvent).    *)
(* The three components share no state, so each has its own               *)
(* specification: SpecValidate, SpecMultipart and SpecSse.                 *)
(***************************************************************************)
EXTENDS Integers, Sequences, FiniteSets, TLC

VARIABLES
    \* ---- validation adapters
    req,         \* the request's sections: [query, params]
    schema,      \* the Zod schema: what safeParse answers for each input
    options,     \* the third argument: undefined or { safe }
    outcome,     \* what the call did: nothing yet, a return or a throw
    called,      \* the adapter that was called: "none", "query" or "params"
    parseCalls,  \* the inputs schema.safeParse was invoked with, in order
    \* ---- multipart extractor
    headers,     \* req.headers['content-type']: a string or undefined
    body,        \* the parts the request body declares, in order
    reqStream,   \* the request byte stream: piped or not, parts read from it, aborted or not
    mpc,         \* "idle" before readMultipartFormData is called, then "called"
    bb,          \* the busboy decoder: created, its state, the next part to parse
    files,       \* the file streams the decoder announced, in announcement order
    chunks,      \* per announced file, the chunks array of its 'file' handler
    promises,    \* the promises array: one promise per announced file
    all,         \* the promise Promise.all(promises) made by the 'finish' handler
    jobs,        \* the queue of pending promise reactions (microtasks)
    returned,    \* the promise readMultipartFormData returned
    history,     \* what the decode did so far: a stream ended before an
                 \* earlier one, chunks of two streams arrived interleaved,
                 \* 'finish' fired with a stream still open
    \* ---- SSE channel
    res,         \* the response: its optional capabilities, closed and ended
    resCalls,    \* the operations invoked on the response, in order
    sse,         \* the channel: created or not, and its closed property
    lastCall,    \* the last channel operation called and where its calls begin
    ops,         \* the channel operations called so far
    pushes,      \* the push and pushComment calls made so far, in call order
    \* ---- a second call of readMultipartFormData, on another request
    peer         \* the other call in flight: what its closure holds while the
                 \* handlers of this call run

varsV == <<req, schema, options, outcome, called, parseCalls>>

varsM == <<headers, body, reqStream, mpc, bb, files, chunks, promises, all,
           jobs, returned, history>>

varsS == <<res, resCalls, sse, lastCall, ops, pushes>>

vars == <<varsV, varsM, varsS, peer>>

(***************************************************************************)
(* JavaScript values.  Every value is a tagged record, and the tags use    *)
(* distinct field names, so that any two values can be compared.           *)
(***************************************************************************)
Undefined == [type |-> "undefined"]

Obj(v) == [type |-> "object", obj |-> v]

Arr(s) == [type |-> "array", items |-> s]

(***************************************************************************)
(* The validation adapters.                                                *)
(***************************************************************************)

\* What a request section can hold: undefined (no body parser ran, or the
\* mock of the tests), or a string-keyed object.
Inputs == {Undefined, Obj("{page:'1'}"), Obj("{page:'abc'}")}

\* The values a schema can produce: the input unchanged or a coerced value.
ParsedData == {Obj("{page:'1'}"), Obj("{page:1}")}

\* A ZodError as the adapters read it: message, issues and the cause property.
\* Zod sets message and issues; it never sets cause, which stays undefined.
ZodErrors ==
    { [message |-> "Invalid input: expected number, received NaN",
       issues |-> Arr(<<"invalid_type">>),
       cause |-> Undefined],
      [message |-> "Invalid input: expected object, received undefined",
       issues |-> Arr(<<"invalid_type", "too_small">>),
       cause |-> Undefined] }

\* z.ZodSafeParseResult: a success carrying data or a failure carrying error.
SafeParseResults ==
    { [success |-> TRUE, data |-> d] : d \in ParsedData }
        \cup { [success |-> FALSE, error |-> e] : e \in ZodErrors }

\* A schema is what its safeParse answers for each input.
Schemas == [Inputs -> SafeParseResults]

safeParse(s, input) == s[input]

\* The options argument: omitted, {}, { safe: false } or { safe: true }.
OptionValues ==
    { Undefined,
      [type |-> "options", safe |-> "undefined"],
      [type |-> "options", safe |-> "false"],
      [type |-> "options", safe |-> "true"] }

\* options?.safe, as a condition
OptSafe(o) == o.type = "options" /\ o.safe = "true"

Return(v) == [kind |-> "return", value |-> v]

\* throw new Error(message, { cause })
Throw(message, cause) ==
    [kind |-> "throw", error |-> [message |-> message, cause |-> cause]]

NoOutcome == [kind |-> "none"]

\* Validated with the input returned in place of the parsed data.
Validated_ReturnsInput(section, s, o) ==
    LET result == safeParse(s, section)
    IN  [ parsed |-> <<section>>,
          outcome |->
              IF OptSafe(o)
              THEN Return(result)
              ELSE IF ~result.success
                   THEN Throw(result.error.message, result.error.cause)
                   ELSE Return(section) ]

\* Validated with the safe option ignored.
Validated_IgnoresSafe(section, s, o) ==
    LET result == safeParse(s, section)
    IN  [ parsed |-> <<section>>,
          outcome |->
              IF ~result.success
              THEN Throw(result.error.message, result.error.cause)
              ELSE Return(result.data) ]

\* The body of an adapter, given the section it reads: what safeParse was
\* invoked with, and what the call returns or throws.
Validated(section, s, o) ==
    LET result == safeParse(s, section)
    IN  [ parsed |-> <<section>>,
          outcome |->
              IF OptSafe(o)
              THEN Return(result)
              ELSE IF ~result.success
                   THEN Throw(result.error.message, result.error.cause)
                   ELSE Return(result.data) ]

readValidatedQueryResult(r, s, o) == Validated(r.query, s, o)

\* readValidatedParams reading req.query, as readValidatedQuery does.
readValidatedParamsResult_ReadsQuery(r, s, o) == Validated(r.query, s, o)

readValidatedParamsResult(r, s, o) == Validated(r.params, s, o)

\* No second call of readMultipartFormData in flight.
NoPeer == [mpc |-> "none"]

\* The SSE channel before it is opened, on a response nothing was done to.
IdleS ==
    /\ res = [hasFlushHeaders |-> FALSE, hasFlush |-> FALSE, closed |-> FALSE,
              ended |-> FALSE, throws |-> "none"]
    /\ resCalls = <<>>
    /\ sse = [created |-> FALSE, closed |-> FALSE]
    /\ lastCall = [fn |-> "none", arg |-> <<>>, at |-> 0,
                   threw |-> NoOutcome]
    /\ ops = 0
    /\ pushes = <<>>

\* The multipart extractor before any call, on a request with no body, and
\* no second request.
IdleM ==
    /\ peer = NoPeer
    /\ headers = Undefined
    /\ body = <<>>
    /\ reqStream = [piped |-> FALSE, read |-> 0, aborted |-> FALSE]
    /\ mpc = "idle"
    /\ bb = [created |-> FALSE, state |-> "none", next |-> 1]
    /\ files = <<>>
    /\ chunks = <<>>
    /\ promises = <<>>
    /\ all = [state |-> "none", n |-> 0, count |-> 0, value |-> Undefined]
    /\ jobs = <<>>
    /\ returned = [state |-> "none", value |-> Undefined]
    /\ history = [endedEarly |-> FALSE, interleaved |-> FALSE, finishedEarly |-> FALSE]

InitV ==
    /\ IdleM
    /\ IdleS
    /\ req \in [query : Inputs, params : Inputs]
    /\ schema \in Schemas
    /\ options \in OptionValues
    /\ called = "none"
    /\ outcome = NoOutcome
    /\ parseCalls = <<>>

readValidatedQuery ==
    /\ called = "none"
    /\ called' = "query"
    /\ parseCalls' = parseCalls \o readValidatedQueryResult(req, schema, options).parsed
    /\ outcome' = readValidatedQueryResult(req, schema, options).outcome
    /\ UNCHANGED <<req, schema, options>>
    /\ UNCHANGED <<varsM, varsS, peer>>

readValidatedParams ==
    /\ called = "none"
    /\ called' = "params"
    /\ parseCalls' = parseCalls \o readValidatedParamsResult(req, schema, options).parsed
    /\ outcome' = readValidatedParamsResult(req, schema, options).outcome
    /\ UNCHANGED <<req, schema, options>>
    /\ UNCHANGED <<varsM, varsS, peer>>

NextV ==
    \/ readValidatedQuery
    \/ readValidatedParams

SpecValidate == InitV /\ [][NextV]_vars

(***************************************************************************)
(* Claims about the validation adapters.                                   *)
(***************************************************************************)

\* The section the called adapter reads, and the schema's answer for it.
CalledSection == IF called = "query" THEN req.query ELSE req.params

SchemaResult == safeParse(schema, CalledSection)

\* C1: in unsafe mode (options omitted or safe not true), when the schema
\* rejects the section, the adapter throws an Error whose message is the
\* schema failure's message and whose cause is the failure's issue list.
C1_UnsafeThrowCarriesIssues ==
    (called # "none" /\ ~OptSafe(options) /\ ~SchemaResult.success)
        => /\ outcome.kind = "throw"
           /\ outcome.error.message = SchemaResult.error.message
           /\ outcome.error.cause = SchemaResult.error.issues

\* C2: when the schema accepts the section, a call with options omitted, {}
\* or { safe: false } returns exactly the schema's parsed value, and a call
\* with { safe: true } returns a success outcome carrying that same value.
C2_AcceptedValueReturned ==
    (called # "none" /\ SchemaResult.success)
        => IF OptSafe(options)
           THEN /\ outcome.kind = "return"
                /\ outcome.value.success
                /\ outcome.value.data = SchemaResult.data
           ELSE outcome = Return(SchemaResult.data)

C2_Witness ==
    /\ called # "none"
    /\ options = [type |-> "options", safe |-> "undefined"]
    /\ SchemaResult.success
    /\ SchemaResult.data # CalledSection
    /\ outcome.kind = "return"

\* A ValidationOutcome is a success carrying data or a failure carrying an
\* error with its issue list, never both.
NeverBoth(r) ==
    IF r.success
    THEN DOMAIN r = {"success", "data"}
    ELSE DOMAIN r = {"success", "error"} /\ r.error.issues.type = "array"

\* C3: with options.safe true the adapter never throws: it returns the
\* schema's outcome unchanged, which is a success carrying a value or a
\* failure carrying the issue list, never both.
C3_SafeNeverRaises ==
    (called # "none" /\ OptSafe(options))
        => /\ outcome.kind = "return"
           /\ outcome.value = SchemaResult
           /\ NeverBoth(outcome.value)

C3_Witness ==
    /\ called # "none"
    /\ OptSafe(options)
    /\ ~SchemaResult.success
    /\ outcome.kind = "return"

\* C17: the adapter hands the request section to the schema as it is: a call
\* invokes the schema's parse exactly once, with the very value of the
\* section the adapter is for (req.query, req.params), undefined included,
\* and it leaves the request, the schema and the options as they were.
C17_SectionHandedUnchanged ==
    [][ (called = "none" /\ called' # "none")
            => /\ parseCalls' = <<IF called' = "query" THEN req.query ELSE req.params>>
               /\ req' = req
               /\ schema' = schema
               /\ options' = options ]_vars

C17_Witness ==
    /\ called = "params"
    /\ req.params = Undefined
    /\ req.query = Obj("{page:'abc'}")
    /\ parseCalls = <<Undefined>>


(***************************************************************************)
(* The multipart extractor.                                                *)
(***************************************************************************)

Null == [type |-> "null"]

\* A JavaScript string, as the sequence of its UTF-16 code units.
Str(codeUnits) == [type |-> "string", chars |-> codeUnits]

\* 'multipart/form-data'
MultipartLiteral == <<109, 117, 108, 116, 105, 112, 97, 114, 116, 47, 102, 111, 114, 109, 45, 100, 97, 116, 97>>

\* 'boundary='
BoundaryParam == <<98, 111, 117, 110, 100, 97, 114, 121, 61>>

\* The content-type headers a request arrives with: none, '', 'text/plain',
\* 'application/json', 'multipart/mixed', ' Multipart/form-data; boundary=x',
\* 'multipart/form-data' and 'multipart/form-data; boundary=x'.
HeaderValues ==
    { Undefined,
      Str(<<>>),
      Str(<<116, 101, 120, 116, 47, 112, 108, 97, 105, 110>>),
      Str(<<97, 112, 112, 108, 105, 99, 97, 116, 105, 111, 110, 47, 106, 115, 111, 110>>),
      Str(<<109, 117, 108, 116, 105, 112, 97, 114, 116, 47, 109, 105, 120, 101, 100>>),
      Str(<<32, 77, 117, 108, 116, 105, 112, 97, 114, 116, 47, 102, 111, 114, 109, 45, 100, 97, 116, 97, 59, 32, 98, 111, 117, 110, 100, 97, 114, 121, 61, 120>>),
      Str(MultipartLiteral),
      Str(MultipartLiteral \o <<59, 32, 98, 111, 117, 110, 100, 97, 114, 121, 61, 120>>) }

\* !contentType
Falsy(v) == v.type = "undefined" \/ (v.type = "string" /\ v.chars = <<>>)

\* contentType.charCodeAt(0), for a non-empty string
charCodeAt0(v) == v.chars[1]

\* contentType.startsWith(prefix)
startsWith(v, prefix) ==
    /\ Len(v.chars) >= Len(prefix)
    /\ SubSeq(v.chars, 1, Len(prefix)) = prefix

\* getContentType with 77, the code of 'M', in the pre-check.
getContentType_PreCheckUpperCase(contentType) ==
    IF \/ Falsy(contentType)
       \/ charCodeAt0(contentType) # 77
       \/ ~startsWith(contentType, MultipartLiteral)
    THEN Null
    ELSE contentType

\* getContentType with the prefix comparison left out.
getContentType_NoPrefixCheck(contentType) ==
    IF Falsy(contentType) \/ charCodeAt0(contentType) # 109
    THEN Null
    ELSE contentType

getContentType(contentType) ==
    IF \/ Falsy(contentType)
       \/ charCodeAt0(contentType) # 109
       \/ ~startsWith(contentType, MultipartLiteral)
    THEN Null
    ELSE contentType

\* busboy({ headers }) throws 'Multipart: Boundary not found' when the
\* content type carries no boundary parameter.
HasBoundary(v) ==
    \E i \in 1..Len(v.chars) :
        /\ i + Len(BoundaryParam) <= Len(v.chars)
        /\ SubSeq(v.chars, i, i + Len(BoundaryParam) - 1) = BoundaryParam

\* The parts a body declares: a non-file field, or a file with its field
\* name, declared filename and declared MIME type.
FieldPart == [kind |-> "field", name |-> "text", filename |-> "", mimeType |-> "text/plain"]

FileParts ==
    { [kind |-> "file", name |-> "a", filename |-> "a.txt", mimeType |-> "text/plain"],
      [kind |-> "file", name |-> "b", filename |-> "b.json", mimeType |-> "application/json"] }

PartDecls == {FieldPart} \cup FileParts

MaxParts == 2

Bodies == UNION { [1..n -> PartDecls] : n \in 0..MaxParts }

\* The chunks a file stream delivers with its 'data' events.
ChunkValues == { <<0, 255>>, <<10, 13>> }

\* The 'data' events of a run, all file streams together.
MaxChunks == 2

\* What a stream or the decoder fails with: an Error, or a value that is none.
ErrorInstance(m) == [type |-> "Error", message |-> m]

StreamErrors == { ErrorInstance("stream failed"), [type |-> "string", str |-> "aborted"] }

DecoderErrors == { ErrorInstance("Unexpected end of form") }

BoundaryNotFound == ErrorInstance("Multipart: Boundary not found")

\* error instanceof Error
InstanceOfError(v) == v.type = "Error"

Pending == [state |-> "pending", value |-> Undefined]

Fulfilled(v) == [state |-> "fulfilled", value |-> v]

Rejected(e) == [state |-> "rejected", value |-> e]

\* resolve(v) and reject(e) of a promise p: the first settlement stands.
\* A promise that a later resolve settles again.
Resolve_Again(p, v) == Fulfilled(v)

Resolve(p, v) == IF p.state = "pending" THEN Fulfilled(v) ELSE p

Reject(p, e) == IF p.state = "pending" THEN Rejected(e) ELSE p

RECURSIVE BufferConcat(_)
\* Buffer.concat(chunks)
BufferConcat(cs) ==
    IF cs = <<>> THEN <<>> ELSE Head(cs) \o BufferConcat(Tail(cs))

\* The 'data' handler with one chunks array shared by every file.
onData_SharedChunks(cs, k, chunk) == [j \in DOMAIN cs |-> Append(cs[j], chunk)]

\* The 'data' handler of file k: chunks.push(chunk)
onData(cs, k, chunk) == [cs EXCEPT ![k] = Append(@, chunk)]

\* The record with the field name and the filename swapped.
FileRecord_SwappedNames(part, cs) ==
    [type |-> "file", name |-> part.filename, filename |-> part.name,
     mimeType |-> part.mimeType, buffer |-> BufferConcat(cs)]

\* The 'end' handler's record: { name, filename, mimeType, buffer }
FileRecord(part, cs) ==
    [type |-> "file", name |-> part.name, filename |-> part.filename,
     mimeType |-> part.mimeType, buffer |-> BufferConcat(cs)]

\* Promise.all taken for Promise.allSettled: a rejected input counts as
\* settled and the list is delivered all the same.
PromiseAllInput_AllSettled(a, ps, k) ==
    IF a.state # "pending" THEN a
    ELSE IF a.count + 1 = a.n
         THEN [a EXCEPT !.state = "fulfilled", !.count = @ + 1,
                        !.value = Arr([i \in 1..a.n |-> ps[i].value])]
         ELSE [a EXCEPT !.count = @ + 1]

\* Promise.all taken for Promise.race: the first settled input settles it.
PromiseAllInput_Race(a, ps, k) ==
    IF a.state # "pending" THEN a
    ELSE IF ps[k].state = "rejected"
         THEN [a EXCEPT !.state = "rejected", !.value = ps[k].value]
         ELSE [a EXCEPT !.state = "fulfilled", !.count = @ + 1,
                        !.value = Arr(<<ps[k].value>>)]

\* Promise.all collecting the values in the order the inputs settled.
PromiseAllInput_SettleOrder(a, ps, k) ==
    IF a.state # "pending" THEN a
    ELSE IF ps[k].state = "rejected"
         THEN [a EXCEPT !.state = "rejected", !.value = ps[k].value]
         ELSE LET seen == IF a.value.type = "array" THEN a.value.items ELSE <<>>
                  vals == Append(seen, ps[k].value)
              IN  [a EXCEPT !.count = @ + 1,
                            !.value = Arr(vals),
                            !.state = IF a.count + 1 = a.n THEN "fulfilled" ELSE "pending"]

\* Promise.all's reaction to its k-th input settling: the first rejection
\* rejects it; the last fulfilment fulfils it with the values in input order.
PromiseAllInput(a, ps, k) ==
    IF a.state # "pending" THEN a
    ELSE IF ps[k].state = "rejected"
         THEN [a EXCEPT !.state = "rejected", !.value = ps[k].value]
         ELSE IF a.count + 1 = a.n
              THEN [a EXCEPT !.state = "fulfilled", !.count = @ + 1,
                             !.value = Arr([i \in 1..a.n |-> ps[i].value])]
              ELSE [a EXCEPT !.count = @ + 1]

\* The reactions Promise.all queues at once: those of the inputs that are
\* settled already, in input order.
SettledInputs(ps) ==
    LET Idx == [i \in 1..Len(ps) |-> i]
    IN  [i \in 1..Len(SelectSeq(Idx, LAMBDA j : ps[j].state # "pending")) |->
            [job |-> "input", k |-> SelectSeq(Idx, LAMBDA j : ps[j].state # "pending")[i]]]

\* The reaction of Promise.all to input k, queued when k settles after the
\* 'finish' handler subscribed to it.
InputJob(a, k) ==
    IF a.state # "none" /\ k <= a.n THEN <<[job |-> "input", k |-> k]>> ELSE <<>>

\* The .then reaction, queued when Promise.all settles.
ThenJob(before, after) ==
    IF before.state = "pending" /\ after.state # "pending"
    THEN <<[job |-> "then", k |-> 0]>>
    ELSE <<>>

\* The 'data' events delivered so far, all file streams together, those of
\* a second call in flight included.
TotalChunks ==
    Len(BufferConcat([k \in 1..Len(files) |-> files[k].sent]))
        + (IF peer = NoPeer
           THEN 0
           ELSE Len(BufferConcat([k \in 1..Len(peer.files) |-> peer.files[k].sent])))

\* The validation adapters before any call.
IdleV ==
    /\ req = [query |-> Undefined, params |-> Undefined]
    /\ schema = [i \in Inputs |-> [success |-> TRUE, data |-> Obj("{page:1}")]]
    /\ options = Undefined
    /\ called = "none"
    /\ outcome = NoOutcome
    /\ parseCalls = <<>>

InitM ==
    /\ IdleV
    /\ IdleS
    /\ peer = NoPeer
    /\ headers \in HeaderValues
    /\ body \in Bodies
    /\ reqStream = [piped |-> FALSE, read |-> 0, aborted |-> FALSE]
    /\ mpc = "idle"
    /\ bb = [created |-> FALSE, state |-> "none", next |-> 1]
    /\ files = <<>>
    /\ chunks = <<>>
    /\ promises = <<>>
    /\ all = [state |-> "none", n |-> 0, count |-> 0, value |-> Undefined]
    /\ jobs = <<>>
    /\ returned = [state |-> "none", value |-> Undefined]
    /\ history = [endedEarly |-> FALSE, interleaved |-> FALSE, finishedEarly |-> FALSE]

\* The call: the applicability check, then the decoder, its handlers and
\* req.pipe(bb), all in one synchronous run.
readMultipartFormData ==
    /\ mpc = "idle"
    /\ mpc' = "called"
    /\ LET contentType == getContentType(headers)
       IN  IF contentType = Null
           THEN /\ returned' = Fulfilled(Null)
                /\ UNCHANGED <<bb, reqStream>>
           ELSE IF ~HasBoundary(contentType)
                THEN /\ returned' = Rejected(BoundaryNotFound)
                     /\ UNCHANGED <<bb, reqStream>>
                ELSE /\ bb' = [created |-> TRUE, state |-> "parsing", next |-> 1]
                     /\ reqStream' = [reqStream EXCEPT !.piped = TRUE]
                     /\ returned' = Pending
    /\ UNCHANGED <<headers, body, files, chunks, promises, all, jobs, history>>
    /\ UNCHANGED <<varsV, varsS, peer>>

\* The decoder parses a non-file field: its 'field' event has no listener.
busboyField ==
    /\ bb.state = "parsing"
    /\ ~reqStream.aborted
    /\ bb.next <= Len(body)
    /\ body[bb.next].kind = "field"
    /\ bb' = [bb EXCEPT !.next = @ + 1]
    /\ reqStream' = [reqStream EXCEPT !.read = @ + 1]
    /\ UNCHANGED <<headers, body, mpc, files, chunks, promises, all, jobs,
                   returned, history>>
    /\ UNCHANGED <<varsV, varsS, peer>>

\* bb.on('file'): a new chunks array, and a promise pushed on promises.
busboyFile ==
    /\ bb.state = "parsing"
    /\ ~reqStream.aborted
    /\ bb.next <= Len(body)
    /\ body[bb.next].kind = "file"
    /\ bb' = [bb EXCEPT !.next = @ + 1]
    /\ reqStream' = [reqStream EXCEPT !.read = @ + 1]
    /\ files' = Append(files, [part |-> bb.next, stream |-> "open", sent |-> <<>>])
    /\ chunks' = Append(chunks, <<>>)
    /\ promises' = Append(promises, Pending)
    /\ UNCHANGED <<headers, body, mpc, all, jobs, returned, history>>
    /\ UNCHANGED <<varsV, varsS, peer>>

\* file.on('data')
fileData ==
    \E k \in 1..Len(files), chunk \in ChunkValues :
        /\ files[k].stream = "open"
        /\ TotalChunks < MaxChunks
        /\ files' = [files EXCEPT ![k].sent = Append(@, chunk)]
        /\ chunks' = onData(chunks, k, chunk)
        /\ history' = [history EXCEPT
                          !.interleaved =
                              @ \/ \E j \in 1..Len(files) :
                                      /\ j # k
                                      /\ files[j].stream = "open"
                                      /\ files[j].sent # <<>>]
        /\ UNCHANGED <<headers, body, reqStream, mpc, bb, promises, all, jobs,
                       returned>>
        /\ UNCHANGED <<varsV, varsS, peer>>

\* file.on('end'): the file's promise is resolved with its record.
fileEnd ==
    \E k \in 1..Len(files) :
        /\ files[k].stream = "open"
        /\ files' = [files EXCEPT ![k].stream = "ended"]
        /\ promises' = [promises EXCEPT
                           ![k] = Resolve(@, FileRecord(body[files[k].part], chunks[k]))]
        /\ jobs' = jobs \o InputJob(all, k)
        /\ history' = [history EXCEPT
                          !.endedEarly =
                              @ \/ \E j \in 1..(k - 1) : files[j].stream = "open"]
        /\ UNCHANGED <<headers, body, reqStream, mpc, bb, chunks, all, returned>>
        /\ UNCHANGED <<varsV, varsS, peer>>

\* file.on('error', reject)
fileError ==
    \E k \in 1..Len(files), e \in StreamErrors :
        /\ files[k].stream = "open"
        /\ files' = [files EXCEPT ![k].stream = "errored"]
        /\ promises' = [promises EXCEPT ![k] = Reject(@, e)]
        /\ jobs' = jobs \o InputJob(all, k)
        /\ UNCHANGED <<headers, body, reqStream, mpc, bb, chunks, all, returned,
                       history>>
        /\ UNCHANGED <<varsV, varsS, peer>>

\* The 'finish' handler, which leaves the decoder in the given state:
\* Promise.all(promises).then(...).catch(...)
onFinish(state) ==
    /\ bb' = [bb EXCEPT !.state = state]
    /\ all' = IF promises = <<>>
              THEN [state |-> "fulfilled", n |-> 0, count |-> 0, value |-> Arr(<<>>)]
              ELSE [state |-> "pending", n |-> Len(promises), count |-> 0,
                    value |-> Undefined]
    /\ jobs' = jobs \o SettledInputs(promises)
                    \o (IF promises = <<>> THEN <<[job |-> "then", k |-> 0]>> ELSE <<>>)
    /\ history' = [history EXCEPT
                      !.finishedEarly =
                          \E k \in 1..Len(files) : files[k].stream = "open"]
    /\ UNCHANGED <<headers, body, reqStream, mpc, files, chunks, promises,
                   returned>>
    /\ UNCHANGED <<varsV, varsS, peer>>

\* bb.on('finish'): the decoder has parsed the whole body.
busboyFinish ==
    /\ bb.state = "parsing"
    /\ ~reqStream.aborted
    /\ bb.next > Len(body)
    /\ onFinish("finished")

\* bb.on('error', reject)
busboyError ==
    \E e \in DecoderErrors :
        /\ bb.state = "parsing"
        /\ ~reqStream.aborted
        /\ bb' = [bb EXCEPT !.state = "errored"]
        /\ returned' = Reject(returned, e)
        /\ UNCHANGED <<headers, body, reqStream, mpc, files, chunks, promises,
                       all, jobs, history>>
        /\ UNCHANGED <<varsV, varsS, peer>>

\* The request stream fails or the client goes away before the body's end.
\* req.pipe(bb) ends the decoder on the request's 'end' only, and nothing
\* listens to the request's 'error', 'aborted' or 'close': the decoder gets
\* no more bytes and no end, so it emits nothing more.  The file streams
\* still deliver what they have.
reqAbort ==
    /\ reqStream.piped
    /\ bb.state = "parsing"
    /\ ~reqStream.aborted
    /\ reqStream' = [reqStream EXCEPT !.aborted = TRUE]
    /\ UNCHANGED <<headers, body, mpc, bb, files, chunks, promises, all, jobs,
                   returned, history>>
    /\ UNCHANGED <<varsV, varsS, peer>>

\* The .catch handler with a new Error in every case.
catchValue_AlwaysNew(error) ==
    ErrorInstance("An error occurred while parsing multipart form data")

\* error instanceof Error ? error : new Error('An error occurred while parsing multipart form data')
catchValue(error) ==
    IF InstanceOfError(error)
    THEN error
    ELSE ErrorInstance("An error occurred while parsing multipart form data")

\* A microtask: Promise.all reacts to one settled input.
allInputJob ==
    /\ jobs # <<>>
    /\ Head(jobs).job = "input"
    /\ all' = PromiseAllInput(all, promises, Head(jobs).k)
    /\ jobs' = Tail(jobs) \o ThenJob(all, all')
    /\ UNCHANGED <<headers, body, reqStream, mpc, bb, files, chunks, promises,
                   returned, history>>
    /\ UNCHANGED <<varsV, varsS, peer>>

\* A microtask: .then((files) => resolve(files)); a rejection passes on to
\* the .catch reaction.
thenJob ==
    /\ jobs # <<>>
    /\ Head(jobs).job = "then"
    /\ IF all.state = "fulfilled"
       THEN /\ returned' = Resolve(returned, all.value)
            /\ jobs' = Tail(jobs)
       ELSE /\ returned' = returned
            /\ jobs' = Tail(jobs) \o <<[job |-> "catch", k |-> 0]>>
    /\ UNCHANGED <<headers, body, reqStream, mpc, bb, files, chunks, promises,
                   all, history>>
    /\ UNCHANGED <<varsV, varsS, peer>>

\* A microtask: .catch((error) => reject(error instanceof Error ? error : new Error(...)))
catchJob ==
    /\ jobs # <<>>
    /\ Head(jobs).job = "catch"
    /\ returned' = Reject(returned, catchValue(all.value))
    /\ jobs' = Tail(jobs)
    /\ UNCHANGED <<headers, body, reqStream, mpc, bb, files, chunks, promises,
                   all, history>>
    /\ UNCHANGED <<varsV, varsS, peer>>

NextM ==
    \/ readMultipartFormData
    \/ busboyField
    \/ busboyFile
    \/ fileData
    \/ fileEnd
    \/ fileError
    \/ busboyFinish
    \/ busboyError
    \/ reqAbort
    \/ allInputJob
    \/ thenJob
    \/ catchJob

SpecMultipart == InitM /\ [][NextM]_vars

(***************************************************************************)
(* A decoder and file streams that go on emitting after their last event:  *)
(* 'error' after 'finish', 'finish' after 'error', and a stream's 'error'  *)
(* after its 'end'.  The handlers are registered with on, so each of these *)
(* events runs its handler again, as late as it comes.                     *)
(***************************************************************************)

InitLate ==
    /\ IdleV
    /\ IdleS
    /\ peer = NoPeer
    /\ headers = Str(MultipartLiteral \o <<59, 32, 98, 111, 117, 110, 100, 97, 114, 121, 61, 120>>)
    /\ body \in {b \in Bodies : Len(b) <= 1}
    /\ reqStream = [piped |-> FALSE, read |-> 0, aborted |-> FALSE]
    /\ mpc = "idle"
    /\ bb = [created |-> FALSE, state |-> "none", next |-> 1]
    /\ files = <<>>
    /\ chunks = <<>>
    /\ promises = <<>>
    /\ all = [state |-> "none", n |-> 0, count |-> 0, value |-> Undefined]
    /\ jobs = <<>>
    /\ returned = [state |-> "none", value |-> Undefined]
    /\ history = [endedEarly |-> FALSE, interleaved |-> FALSE, finishedEarly |-> FALSE]

\* bb.on('finish'), for a 'finish' emitted after the decoder's 'error'.
busboyLateFinish ==
    /\ bb.state = "errored"
    /\ onFinish("erroredThenFinished")

\* bb.on('error', reject), for an 'error' emitted after the decoder's 'finish'.
busboyLateError ==
    \E e \in DecoderErrors :
        /\ bb.state = "finished"
        /\ bb' = [bb EXCEPT !.state = "finishedThenErrored"]
        /\ returned' = Reject(returned, e)
        /\ UNCHANGED <<headers, body, reqStream, mpc, files, chunks, promises,
                       all, jobs, history>>
        /\ UNCHANGED <<varsV, varsS, peer>>

\* file.on('error', reject), for an 'error' emitted after the stream's 'end':
\* the file's promise is settled already, so no reaction is queued.
fileLateError ==
    \E k \in 1..Len(files), e \in StreamErrors :
        /\ files[k].stream = "ended"
        /\ files' = [files EXCEPT ![k].stream = "endedThenErrored"]
        /\ promises' = [promises EXCEPT ![k] = Reject(@, e)]
        /\ UNCHANGED <<headers, body, reqStream, mpc, bb, chunks, all, jobs,
                       returned, history>>
        /\ UNCHANGED <<varsV, varsS, peer>>

NextLate ==
    \/ readMultipartFormData
    \/ busboyField
    \/ busboyFile
    \/ fileData
    \/ fileEnd
    \/ fileError
    \/ busboyFinish
    \/ busboyError
    \/ busboyLateFinish
    \/ busboyLateError
    \/ fileLateError
    \/ allInputJob
    \/ thenJob
    \/ catchJob

SpecLateEvents == InitLate /\ [][NextLate]_vars

(***************************************************************************)
(* Two calls of readMultipartFormData in flight, on two requests.  A       *)
(* handler runs to its end before another one starts, so the two decodes   *)
(* interleave handler by handler: the variables above are the closure of   *)
(* the call whose handlers run, peer is the closure of the other call.     *)
(***************************************************************************)

\* One file part per kind of request, so that the two results differ.
BodiesOfTwo ==
    { << [kind |-> "file", name |-> "a", filename |-> "a.txt", mimeType |-> "text/plain"] >>,
      << [kind |-> "file", name |-> "b", filename |-> "b.json", mimeType |-> "application/json"],
         [kind |-> "file", name |-> "a", filename |-> "a.txt", mimeType |-> "text/plain"] >> }

\* The closure of the running call: req, bb, promises and, per file, chunks.
Mine ==
    [headers |-> headers, body |-> body, reqStream |-> reqStream, mpc |-> mpc,
     bb |-> bb, files |-> files, chunks |-> chunks, promises |-> promises,
     all |-> all, jobs |-> jobs, returned |-> returned, history |-> history]

\* const promises = [] at module level: one array for every call.
otherCall_ModulePromises(mine, theirs) == [theirs EXCEPT !.promises = mine.promises]

\* What the handlers of the other call work on: their own closure, since bb,
\* promises and chunks are declared inside the function and its handlers.
otherCall(mine, theirs) == theirs

InitTwo ==
    /\ IdleV
    /\ IdleS
    /\ headers = Str(MultipartLiteral \o <<59, 32, 98, 111, 117, 110, 100, 97, 114, 121, 61, 120>>)
    /\ body \in BodiesOfTwo
    /\ reqStream = [piped |-> FALSE, read |-> 0, aborted |-> FALSE]
    /\ mpc = "idle"
    /\ bb = [created |-> FALSE, state |-> "none", next |-> 1]
    /\ files = <<>>
    /\ chunks = <<>>
    /\ promises = <<>>
    /\ all = [state |-> "none", n |-> 0, count |-> 0, value |-> Undefined]
    /\ jobs = <<>>
    /\ returned = [state |-> "none", value |-> Undefined]
    /\ history = [endedEarly |-> FALSE, interleaved |-> FALSE, finishedEarly |-> FALSE]
    /\ \E b \in BodiesOfTwo \ {body} : peer = [Mine EXCEPT !.body = b]

\* The next handler to run belongs to the other call.
switch ==
    /\ peer' = Mine
    /\ headers' = otherCall(Mine, peer).headers
    /\ body' = otherCall(Mine, peer).body
    /\ reqStream' = otherCall(Mine, peer).reqStream
    /\ mpc' = otherCall(Mine, peer).mpc
    /\ bb' = otherCall(Mine, peer).bb
    /\ files' = otherCall(Mine, peer).files
    /\ chunks' = otherCall(Mine, peer).chunks
    /\ promises' = otherCall(Mine, peer).promises
    /\ all' = otherCall(Mine, peer).all
    /\ jobs' = otherCall(Mine, peer).jobs
    /\ returned' = otherCall(Mine, peer).returned
    /\ history' = otherCall(Mine, peer).history
    /\ UNCHANGED <<varsV, varsS>>

\* An event or a microtask of the running call, once both calls are made:
\* the two requests arrive before the first event of either body, so that
\* the two decodes are in flight together.
stepOfTwo ==
    /\ mpc = "called"
    /\ peer.mpc = "called"
    /\ \/ busboyFile
       \/ fileData
       \/ fileEnd
       \/ fileError
       \/ busboyFinish
       \/ busboyError
       \/ allInputJob
       \/ thenJob
       \/ catchJob

NextTwo ==
    \/ switch
    \/ readMultipartFormData
    \/ stepOfTwo

SpecTwoRequests == InitTwo /\ [][NextTwo]_vars


(***************************************************************************)
(* Claims about the multipart extractor.                                   *)
(***************************************************************************)

\* The header begins with the literal 'multipart/form-data'.
BeginsWithMultipart(h) ==
    /\ h.type = "string"
    /\ \A i \in 1..Len(MultipartLiteral) :
          i <= Len(h.chars) /\ h.chars[i] = MultipartLiteral[i]

\* The call resolved with a list of file records.
ReturnedList == returned.state = "fulfilled" /\ returned.value.type = "array"

\* The file parts the body declares, in declaration order.
FileDecls == SelectSeq(body, LAMBDA part : part.kind = "file")

\* C4: when the content-type header is absent or does not begin with the
\* literal 'multipart/form-data', the call returns null and leaves the
\* request stream alone: no decoder is created, nothing is piped or read.
C4_NotApplicableLeavesStreamAlone ==
    (mpc = "called" /\ ~BeginsWithMultipart(headers))
        => /\ returned = Fulfilled(Null)
           /\ ~bb.created
           /\ bb.state = "none"
           /\ ~reqStream.piped
           /\ reqStream.read = 0

C4_Witness ==
    /\ mpc = "called"
    /\ headers.type = "string"
    /\ headers.chars # <<>>
    /\ headers.chars[1] = 109
    /\ ~BeginsWithMultipart(headers)
    /\ returned = Fulfilled(Null)

\* C5: once a file stream or the decoder has reported an error, the call
\* never resolves with a list: a decoder error rejects it at once, and a
\* file error rejects it once the decoder has finished and the promise
\* reactions have run.
C5_FailureNeverYieldsList ==
    (\/ bb.state = "errored"
     \/ \E k \in 1..Len(files) : files[k].stream = "errored")
        => /\ returned.state # "fulfilled"
           /\ bb.state = "errored" => returned.state = "rejected"
           /\ (bb.state = "finished" /\ jobs = <<>>) => returned.state = "rejected"

C5_Witness ==
    /\ Len(files) = 2
    /\ files[1].stream = "ended"
    /\ files[2].stream = "errored"
    /\ bb.state = "finished"
    /\ returned.state = "rejected"

\* C6: the call resolves with a list only when the decoder has reported the
\* body fully parsed and every file part it announced has ended its stream.
C6_ResolvesAfterJoin ==
    ReturnedList
        => /\ bb.state = "finished"
           /\ bb.next > Len(body)
           /\ \A k \in 1..Len(files) : files[k].stream = "ended"

C6_Witness ==
    /\ ReturnedList
    /\ history.finishedEarly
    /\ Len(files) = 2

\* C7: the returned list holds the file records in the order of the
\* decoder's file events, which is the order the body declares the parts,
\* also when a later part's stream ends before an earlier part's.
C7_DeclarationOrder ==
    ReturnedList
        => /\ Len(returned.value.items) = Len(files)
           /\ \A k \in 1..Len(files) :
                 /\ returned.value.items[k].name = body[files[k].part].name
                 /\ returned.value.items[k].filename = body[files[k].part].filename
                 /\ returned.value.items[k].buffer = BufferConcat(files[k].sent)
                 /\ \A j \in 1..(k - 1) : files[j].part < files[k].part

C7_Witness ==
    /\ ReturnedList
    /\ history.endedEarly
    /\ Len(files) = 2
    /\ body[1].name # body[2].name
    /\ files[1].sent # files[2].sent

\* C8: for a well-formed body the list holds exactly one record per file
\* part, with the part's field name, declared filename and declared MIME
\* type; a non-file field yields no record, and a body without file parts
\* yields the empty list, not null.
C8_OneRecordPerFilePart ==
    /\ ReturnedList
          => /\ Len(returned.value.items) = Len(FileDecls)
             /\ \A k \in 1..Len(FileDecls) :
                   /\ returned.value.items[k].name = FileDecls[k].name
                   /\ returned.value.items[k].filename = FileDecls[k].filename
                   /\ returned.value.items[k].mimeType = FileDecls[k].mimeType
    /\ (bb.state = "finished" /\ jobs = <<>> /\ FileDecls = <<>>)
          => returned = Fulfilled(Arr(<<>>))

C8_Witness ==
    /\ ReturnedList
    /\ Len(body) = 2
    /\ body[1].kind = "field"
    /\ body[2].kind = "file"
    /\ Len(returned.value.items) = 1

RECURSIVE ByteCount(_)
\* The bytes a stream delivered, counted chunk by chunk.
ByteCount(sent) ==
    IF sent = <<>> THEN 0 ELSE Len(Head(sent)) + ByteCount(Tail(sent))

\* C9: a record's content is the concatenation, in arrival order, of the
\* chunks its own stream delivered: its length is the byte count received
\* for that part and it holds no byte of another part.
C9_ContentIsOwnChunks ==
    ReturnedList
        => \A k \in 1..Len(returned.value.items) :
              /\ returned.value.items[k].buffer = BufferConcat(files[k].sent)
              /\ Len(returned.value.items[k].buffer) = ByteCount(files[k].sent)

C9_Witness ==
    /\ ReturnedList
    /\ history.interleaved
    /\ Len(files) = 2
    /\ Len(files[1].sent) = 1
    /\ Len(files[2].sent) = 1
    /\ files[1].sent # files[2].sent


(***************************************************************************)
(* The SSE channel.                                                        *)
(***************************************************************************)

\* The texts and payloads are sequences of code units: 10 is '\n', 13 is
\* '\r', 32 is ' ', 58 is ':' and 97 is 'a'.
TextChars == {97, 10, 13}

MaxText == 2

\* The comment texts pushComment is called with.
Texts == UNION { [1..n -> TextChars] : n \in 0..MaxText }

\* The chunks push is called with: 'data: a\n\n' and 'a'.
PushChunks == { <<100, 97, 116, 97, 58, 32, 97, 10, 10>>, <<97>> }

\* What close is called with: nothing, or a final chunk.
CloseArgs == { <<>>, <<"bye">> }

\* The push, pushComment and close calls of one channel.
MaxOps == 2

\* The pushComment calls among them.
MaxComments == 1

RECURSIVE split(_)
\* chunk.split('\n')
split(s) ==
    IF s = <<>> THEN << <<>> >>
    ELSE IF Head(s) = 10
         THEN << <<>> >> \o split(Tail(s))
         ELSE LET rest == split(Tail(s))
              IN  << <<Head(s)>> \o Head(rest) >> \o Tail(rest)

RECURSIVE join(_)
\* lines.join('\n')
join(lines) ==
    IF Len(lines) = 1 THEN lines[1] ELSE lines[1] \o <<10>> \o join(Tail(lines))

\* .map((line) => ': ' + line)
prefixLines(lines) == [i \in 1..Len(lines) |-> <<58, 32>> \o lines[i]]

\* The comment with ': ' put before the text only, not before every line.
comment_FirstLineOnly(chunk) ==
    (IF chunk # <<>> THEN <<58, 32>> \o chunk ELSE <<58>>) \o <<10, 10>>

\* const comment = (chunk ? chunk.split('\n').map(...).join('\n') : ':') + '\n\n'
comment(chunk) ==
    (IF chunk # <<>> THEN join(prefixLines(split(chunk))) ELSE <<58>>) \o <<10, 10>>

\* The operation of the response that raises when it is invoked, if any;
\* it raises each time, with the error below.
Throwing == {"none", "write", "flush", "end"}

TransportError(op) == ErrorInstance(op)

\* A call that ends by raising e; a call that returns leaves NoOutcome.
Raised(e) == [kind |-> "throw", error |-> e]

\* try { ... } catch (error) { throw new Error('SSE failure') }: the error of
\* the response replaced by another.
propagate_Wrapped(r, calls) ==
    IF \E i \in 1..Len(calls) : calls[i].op = r.throws
    THEN Raised(ErrorInstance("SSE failure"))
    ELSE NoOutcome

\* What a call that invoked these operations of the response, in this
\* order, ends with: nothing of the code catches, so the error of the
\* operation that raised leaves the call as it is.
propagate(r, calls) ==
    IF \E i \in 1..Len(calls) : calls[i].op = r.throws
    THEN Raised(TransportError(r.throws))
    ELSE NoOutcome

\* res.flush() in place of res.flush?.(): flush invoked whether or not the
\* response has it.
writeAndFlush_FlushNotOptional(r, chunk) ==
    <<[op |-> "write", chunk |-> chunk, encoding |-> "utf8"]>>
        \o (IF r.throws # "write" THEN <<[op |-> "flush"]>> ELSE <<>>)

\* if (res.closed || res.writableEnded) return; before the write.
writeAndFlush_NothingAfterClose(r, chunk) ==
    IF r.closed \/ r.ended
    THEN <<>>
    ELSE <<[op |-> "write", chunk |-> chunk, encoding |-> "utf8"]>>
            \o (IF r.throws # "write" /\ r.hasFlush THEN <<[op |-> "flush"]>> ELSE <<>>)

\* The chunk written twice, as a retry of the write would.
writeAndFlush_WritesTwice(r, chunk) ==
    <<[op |-> "write", chunk |-> chunk, encoding |-> "utf8"],
      [op |-> "write", chunk |-> chunk, encoding |-> "utf8"]>>
        \o (IF r.throws # "write" /\ r.hasFlush THEN <<[op |-> "flush"]>> ELSE <<>>)

\* The flush invoked before the write.
writeAndFlush_FlushFirst(r, chunk) ==
    (IF r.hasFlush THEN <<[op |-> "flush"]>> ELSE <<>>)
        \o <<[op |-> "write", chunk |-> chunk, encoding |-> "utf8"]>>

\* res.write.call(res, chunk, 'utf8'); res.flush?.()
\* A write that raises ends the call before the flush.
writeAndFlush(r, chunk) ==
    <<[op |-> "write", chunk |-> chunk, encoding |-> "utf8"]>>
        \o (IF r.throws # "write" /\ r.hasFlush THEN <<[op |-> "flush"]>> ELSE <<>>)

\* close: () => res.end(), which drops what close was called with.
endCalls_NoArguments(args) == <<[op |-> "end", args |-> <<>>]>>

\* res.end.bind(res): the bound function hands its arguments on to end.
endCalls(args) == <<[op |-> "end", args |-> args]>>

\* closed: false, whatever the response's flag is.
newChannel_ClosedFalse(r) == [created |-> TRUE, closed |-> FALSE]

\* The returned object: closed: res.closed, read once as the object is built.
newChannel(r) == [created |-> TRUE, closed |-> r.closed]

\* The headers flushed before the fourth of them is set.
openCalls_FlushBeforeLastHeader(r) ==
    << [op |-> "setHeader", name |-> "Content-Type", value |-> "text/event-stream"],
       [op |-> "setHeader", name |-> "Cache-Control", value |-> "no-cache"],
       [op |-> "setHeader", name |-> "Connection", value |-> "keep-alive"] >>
        \o (IF r.hasFlushHeaders THEN <<[op |-> "flushHeaders"]>> ELSE <<>>)
        \o << [op |-> "setHeader", name |-> "X-Accel-Buffering", value |-> "no"] >>

\* The four setHeader calls and res.flushHeaders?.()
openCalls(r) ==
    << [op |-> "setHeader", name |-> "Content-Type", value |-> "text/event-stream"],
       [op |-> "setHeader", name |-> "Cache-Control", value |-> "no-cache"],
       [op |-> "setHeader", name |-> "Connection", value |-> "keep-alive"],
       [op |-> "setHeader", name |-> "X-Accel-Buffering", value |-> "no"] >>
        \o (IF r.hasFlushHeaders THEN <<[op |-> "flushHeaders"]>> ELSE <<>>)

\* The comments written so far: the writes whose payload begins with ':'.
CommentsPushed ==
    Len(SelectSeq(resCalls, LAMBDA c : c.op = "write" /\ c.chunk[1] = 58))

InitS ==
    /\ IdleV
    /\ IdleM
    /\ res \in [hasFlushHeaders : BOOLEAN, hasFlush : BOOLEAN, closed : BOOLEAN,
                ended : {FALSE}, throws : Throwing]
    /\ resCalls = <<>>
    /\ sse = [created |-> FALSE, closed |-> FALSE]
    /\ lastCall = [fn |-> "none", arg |-> <<>>, at |-> 0,
                   threw |-> NoOutcome]
    /\ ops = 0
    /\ pushes = <<>>

createServerSentEvent ==
    /\ ~sse.created
    /\ resCalls' = resCalls \o openCalls(res)
    /\ sse' = newChannel(res)
    /\ lastCall' = [fn |-> "createServerSentEvent", arg |-> <<>>, at |-> Len(resCalls),
                    threw |-> NoOutcome]
    /\ UNCHANGED <<res, ops, pushes>>
    /\ UNCHANGED <<varsV, varsM, peer>>

push ==
    \E chunk \in PushChunks :
        /\ sse.created
        /\ ops < MaxOps
        /\ resCalls' = resCalls \o writeAndFlush(res, chunk)
        /\ lastCall' = [fn |-> "push", arg |-> chunk, at |-> Len(resCalls),
                        threw |-> propagate(res, writeAndFlush(res, chunk))]
        /\ ops' = ops + 1
        /\ pushes' = Append(pushes, [fn |-> "push", arg |-> chunk])
        /\ UNCHANGED <<res, sse>>
        /\ UNCHANGED <<varsV, varsM, peer>>

pushComment ==
    \E chunk \in Texts :
        /\ sse.created
        /\ ops < MaxOps
        /\ CommentsPushed < MaxComments
        /\ resCalls' = resCalls \o writeAndFlush(res, comment(chunk))
        /\ lastCall' = [fn |-> "pushComment", arg |-> chunk, at |-> Len(resCalls),
                        threw |-> propagate(res, writeAndFlush(res, comment(chunk)))]
        /\ ops' = ops + 1
        /\ pushes' = Append(pushes, [fn |-> "pushComment", arg |-> chunk])
        /\ UNCHANGED <<res, sse>>
        /\ UNCHANGED <<varsV, varsM, peer>>

\* close: res.end.bind(res), so close(...args) is res.end(...args)
close ==
    \E args \in CloseArgs :
        /\ sse.created
        /\ ops < MaxOps
        /\ resCalls' = resCalls \o endCalls(args)
        /\ res' = [res EXCEPT !.ended = TRUE]
        /\ lastCall' = [fn |-> "close", arg |-> args, at |-> Len(resCalls),
                        threw |-> propagate(res, endCalls(args))]
        /\ ops' = ops + 1
        /\ UNCHANGED <<sse, pushes>>
        /\ UNCHANGED <<varsV, varsM, peer>>

\* The connection closes (the peer left, or the response ended): the
\* response's closed flag turns true.
resClose ==
    /\ ~res.closed
    /\ res' = [res EXCEPT !.closed = TRUE]
    /\ UNCHANGED <<resCalls, sse, lastCall, ops, pushes>>
    /\ UNCHANGED <<varsV, varsM, peer>>

NextS ==
    \/ createServerSentEvent
    \/ push
    \/ pushComment
    \/ close
    \/ resClose

SpecSse == InitS /\ [][NextS]_vars

(***************************************************************************)
(* Claims about the SSE channel.                                           *)
(***************************************************************************)

\* The operations the last channel call invoked on the response.
LastCalls == SubSeq(resCalls, lastCall.at + 1, Len(resCalls))

\* The writes among a sequence of response operations.
Writes(calls) == SelectSeq(calls, LAMBDA c : c.op = "write")

RECURSIVE CommentBody(_)
\* The text with ': ' put after each of its '\n', code unit by code unit.
CommentBody(text) ==
    IF text = <<>> THEN <<>>
    ELSE (IF Head(text) = 10 THEN <<10, 58, 32>> ELSE <<Head(text)>>)
            \o CommentBody(Tail(text))

\* The payload of a comment: ':\n\n' for the empty text; otherwise every
\* line of the text behind ': ', the lines separated by '\n', then '\n\n'.
CommentPayload(text) ==
    IF text = <<>>
    THEN <<58, 10, 10>>
    ELSE <<58, 32>> \o CommentBody(text) \o <<10, 10>>

\* C10: pushComment(text) writes exactly one payload, with the encoding
\* utf8: ':\n\n' for the empty text, otherwise the text split on '\n', each
\* line prefixed with ': ', the lines rejoined with '\n', then '\n\n'.
C10_CommentFraming ==
    lastCall.fn = "pushComment"
        => /\ Writes(LastCalls) =
                 <<[op |-> "write", chunk |-> CommentPayload(lastCall.arg),
                    encoding |-> "utf8"]>>
           /\ LastCalls[1].op = "write"
           /\ lastCall.arg = <<>> => LastCalls[1].chunk = <<58, 10, 10>>
           /\ lastCall.arg = <<97>> => LastCalls[1].chunk = <<58, 32, 97, 10, 10>>
           /\ lastCall.arg = <<97, 10>>
                 => LastCalls[1].chunk = <<58, 32, 97, 10, 58, 32, 10, 10>>

C10_Witness ==
    /\ lastCall.fn = "pushComment"
    /\ lastCall.arg = <<10, 97>>
    /\ Writes(LastCalls) # <<>>
    /\ Writes(LastCalls)[1].chunk = <<58, 32, 10, 58, 32, 97, 10, 10>>

\* The response operations of the given kinds among a sequence of them.
OfKind(calls, kinds) == SelectSeq(calls, LAMBDA c : c.op \in kinds)

\* The operation of setting a header to a value.
SetHeader(name, value) == [op |-> "setHeader", name |-> name, value |-> value]

\* C11: opening the channel sets exactly four headers, each once and in the
\* order Content-Type text/event-stream, Cache-Control no-cache, Connection
\* keep-alive, X-Accel-Buffering no; flushHeaders is invoked exactly once,
\* right after the fourth header, when the response has it and never when
\* it has not; all of this precedes every write, and no later channel
\* operation sets a header or flushes the headers again.
C11_HeadersOnceInOrder ==
    /\ ~sse.created => resCalls = <<>>
    /\ sse.created =>
          /\ Len(resCalls) >= 4
          /\ resCalls[1] = SetHeader("Content-Type", "text/event-stream")
          /\ resCalls[2] = SetHeader("Cache-Control", "no-cache")
          /\ resCalls[3] = SetHeader("Connection", "keep-alive")
          /\ resCalls[4] = SetHeader("X-Accel-Buffering", "no")
          /\ \A i \in 1..Len(resCalls) : resCalls[i].op = "setHeader" <=> i <= 4
          /\ Len(OfKind(resCalls, {"flushHeaders"})) = (IF res.hasFlushHeaders THEN 1 ELSE 0)
          /\ res.hasFlushHeaders => resCalls[5].op = "flushHeaders"

C11_Witness ==
    /\ sse.created
    /\ res.hasFlushHeaders
    /\ ops = MaxOps
    /\ Len(resCalls) > 6
    /\ resCalls[5].op = "flushHeaders"
    /\ resCalls[6].op = "write"
    /\ resCalls[Len(resCalls)].op = "end"

\* C12: push(data) performs exactly one write on the response, whose payload
\* is data itself with the encoding utf8, and then, once the write has
\* returned, invokes flush exactly once when the response has it and not at
\* all when it has not; the write precedes the flush and nothing else is
\* invoked.
C12_PushWritesThenFlushes ==
    lastCall.fn = "push"
        => /\ Len(LastCalls) >= 1
           /\ LastCalls[1] = [op |-> "write", chunk |-> lastCall.arg, encoding |-> "utf8"]
           /\ Len(OfKind(LastCalls, {"write"})) = 1
           /\ res.throws # "write"
                 => /\ Len(LastCalls) = (IF res.hasFlush THEN 2 ELSE 1)
                    /\ res.hasFlush => LastCalls[2] = [op |-> "flush"]

C12_Witness ==
    /\ lastCall.fn = "push"
    /\ res.hasFlush
    /\ res.throws = "none"
    /\ lastCall.arg = <<100, 97, 116, 97, 58, 32, 97, 10, 10>>
    /\ LastCalls = << [op |-> "write", chunk |-> <<100, 97, 116, 97, 58, 32, 97, 10, 10>>,
                       encoding |-> "utf8"],
                      [op |-> "flush"] >>

\* C13: every call of close invokes end of the response exactly once and
\* passes it no arguments, whatever the caller passed to close.
C13_EndGetsNoArguments ==
    lastCall.fn = "close" => LastCalls = <<[op |-> "end", args |-> <<>>]>>

\* C13, amended: every call of close invokes end of the response exactly
\* once and passes it exactly the arguments the caller passed to close: none
\* for close(), the final chunk for close(chunk).
C13_EndGetsCallersArguments ==
    lastCall.fn = "close"
        => /\ Len(LastCalls) = 1
           /\ LastCalls[1].op = "end"
           /\ LastCalls[1].args = lastCall.arg
           /\ Len(OfKind(resCalls, {"end"})) <= ops

C13_Witness ==
    /\ lastCall.fn = "close"
    /\ lastCall.arg = <<"bye">>
    /\ LastCalls = <<[op |-> "end", args |-> <<"bye">>]>>

IssuedAfterClose == \E j \in 1..lastCall.at : resCalls[j].op = "end"

\* C15: the channel never emits after the response has closed: no push or
\* pushComment issued after close(), or on a response that had closed
\* already, reaches the response as a write.
C15_NoWriteAfterClose ==
    \A i \in 1..Len(resCalls) :
        resCalls[i].op = "write"
            => /\ ~sse.closed
               /\ \A j \in 1..(i - 1) : resCalls[j].op # "end"

\* C15, amended: the channel itself suppresses nothing: a push or
\* pushComment issued after close(), or on a response that had closed
\* already, still invokes write on the response, once and with its payload;
\* whether anything is emitted is left to the response.
C15_WriteAfterCloseReachesTransport ==
    (lastCall.fn \in {"push", "pushComment"} /\ (sse.closed \/ IssuedAfterClose))
        => /\ Len(OfKind(LastCalls, {"write"})) = 1
           /\ LastCalls[1].op = "write"
           /\ LastCalls[1].chunk = (IF lastCall.fn = "push"
                                    THEN lastCall.arg
                                    ELSE CommentPayload(lastCall.arg))

C15_Witness ==
    /\ lastCall.fn = "push"
    /\ IssuedAfterClose
    /\ ~sse.closed
    /\ res.closed
    /\ resCalls[Len(resCalls)].op = "write"

\* The returned promise has settled: null, the list, or a rejection.
Settled == returned.state \in {"fulfilled", "rejected"}

\* C16: every call settles: whatever the request stream, the decoder and
\* the file streams do (a file stream's error and a request stream that
\* fails or is aborted before its end included), the returned promise does
\* not stay pending for ever.  Stated on finite runs: as long as the promise
\* of a call is pending, some event or microtask can still happen.
C16_PendingCanStillSettle ==
    (mpc = "called" /\ ~Settled) => ENABLED NextM

\* The literal, case-sensitive prefix comparison alone: the header itself
\* when it is a string beginning with 'multipart/form-data', null otherwise.
PrefixComparisonAlone(h) == IF BeginsWithMultipart(h) THEN h ELSE Null

\* C18: the pre-check of the first code unit (109, 'm') changes nothing: for
\* every content-type header, absent or present, getContentType returns
\* what the prefix comparison alone returns, and a call answers null
\* exactly when the prefix comparison alone says so.
C18_PreCheckRedundant ==
    /\ getContentType(headers) = PrefixComparisonAlone(headers)
    /\ mpc = "called"
          => (returned = Fulfilled(Null) <=> PrefixComparisonAlone(headers) = Null)

C18_Witness ==
    /\ mpc = "called"
    /\ headers.type = "string"
    /\ headers.chars # <<>>
    /\ charCodeAt0(headers) = 32
    /\ SubSeq(headers.chars, 3, 20) = SubSeq(MultipartLiteral, 2, 19)
    /\ ~startsWith(headers, MultipartLiteral)
    /\ returned = Fulfilled(Null)

\* The operations other than the two optional ones.
Required(calls) == SelectSeq(calls, LAMBDA c : c.op \notin {"flush", "flushHeaders"})

\* C19: flushHeaders and flush are optional: an operation the response does
\* not have is never invoked, so that opening, push and pushComment return
\* without raising on a response that has neither; and the headers set and
\* the writes performed are the same whether or not the response has them.
C19_FlushCapabilitiesOptional ==
    /\ ~res.hasFlushHeaders => OfKind(resCalls, {"flushHeaders"}) = <<>>
    /\ ~res.hasFlush => OfKind(resCalls, {"flush"}) = <<>>
    /\ lastCall.fn = "createServerSentEvent"
          => /\ lastCall.threw = NoOutcome
             /\ Required(LastCalls) =
                    << SetHeader("Content-Type", "text/event-stream"),
                       SetHeader("Cache-Control", "no-cache"),
                       SetHeader("Connection", "keep-alive"),
                       SetHeader("X-Accel-Buffering", "no") >>
    /\ lastCall.fn \in {"push", "pushComment"}
          => /\ (~res.hasFlush /\ res.throws # "write") => lastCall.threw = NoOutcome
             /\ Required(LastCalls) =
                    <<[op |-> "write",
                       chunk |-> (IF lastCall.fn = "push"
                                  THEN lastCall.arg
                                  ELSE CommentPayload(lastCall.arg)),
                       encoding |-> "utf8"]>>

C19_Witness ==
    /\ ~res.hasFlushHeaders
    /\ ~res.hasFlush
    /\ lastCall.fn = "pushComment"
    /\ lastCall.threw = NoOutcome
    /\ ops = MaxOps
    /\ Len(resCalls) = 6
    /\ resCalls[5].op = "write"
    /\ resCalls[6].op = "write"

\* The operation of the response that raised during the last call, or
\* "none": write during push and pushComment, flush after a write that
\* returned, end during close.
RaisedDuringLastCall ==
    IF lastCall.fn \in {"push", "pushComment"} /\ res.throws = "write"
    THEN "write"
    ELSE IF lastCall.fn \in {"push", "pushComment"} /\ res.throws = "flush" /\ res.hasFlush
         THEN "flush"
         ELSE IF lastCall.fn = "close" /\ res.throws = "end"
              THEN "end"
              ELSE "none"

\* C20: an error the response raises from write, flush or end during push,
\* pushComment or close leaves the call as that same error, neither caught
\* nor wrapped, and a call during which nothing raised returns; when the
\* write raises, the flush of that call is not invoked.
C20_TransportErrorPropagates ==
    lastCall.fn \in {"push", "pushComment", "close"}
        => /\ RaisedDuringLastCall = "none" => lastCall.threw = NoOutcome
           /\ RaisedDuringLastCall # "none"
                 => /\ lastCall.threw.kind = "throw"
                    /\ lastCall.threw.error = TransportError(RaisedDuringLastCall)
                    /\ LastCalls[Len(LastCalls)].op = RaisedDuringLastCall
           /\ RaisedDuringLastCall = "write" => OfKind(LastCalls, {"flush"}) = <<>>

C20_Witness ==
    /\ lastCall.fn = "push"
    /\ res.hasFlush
    /\ res.throws = "write"
    /\ lastCall.threw = Raised(TransportError("write"))
    /\ Len(LastCalls) = 1
    /\ LastCalls[1].op = "write"

\* C25: when a file stream has failed and the decoder then reports
\* 'finish', the rejection the caller receives is the failure value of a
\* failed part itself when that value is an Error, and otherwise a new
\* Error with the message 'An error occurred while parsing multipart form
\* data'; the part is the one whose failure Promise.all reported.
C25_RejectionIsPartsFailure ==
    (returned.state = "rejected" /\ bb.state = "finished")
        => \E k \in 1..Len(files) :
              /\ files[k].stream = "errored"
              /\ promises[k].state = "rejected"
              /\ all.value = promises[k].value
              /\ promises[k].value.type = "Error" => returned.value = promises[k].value
              /\ promises[k].value.type # "Error"
                    => returned.value =
                          [type |-> "Error",
                           message |-> "An error occurred while parsing multipart form data"]

C25_Witness ==
    /\ returned.state = "rejected"
    /\ bb.state = "finished"
    /\ Len(files) = 2
    /\ files[1].stream = "ended"
    /\ files[2].stream = "errored"
    /\ promises[2].value = [type |-> "string", str |-> "aborted"]
    /\ returned.value.message = "An error occurred while parsing multipart form data"

(***************************************************************************)
(* Claims about late events.                                               *)
(***************************************************************************)

OwnResult(c) ==
    /\ (c.returned.state = "fulfilled" /\ c.returned.value.type = "array")
          => /\ Len(c.returned.value.items) = Len(c.files)
             /\ Len(c.files) = Len(SelectSeq(c.body, LAMBDA part : part.kind = "file"))
             /\ \A k \in 1..Len(c.files) :
                   /\ c.files[k].part = k
                   /\ c.files[k].stream = "ended"
                   /\ c.returned.value.items[k] =
                         [type |-> "file",
                          name |-> c.body[k].name,
                          filename |-> c.body[k].filename,
                          mimeType |-> c.body[k].mimeType,
                          buffer |-> BufferConcat(c.files[k].sent)]
    /\ c.returned.state = "rejected"
          => \/ c.bb.state = "errored"
             \/ \E k \in 1..Len(c.files) : c.files[k].stream = "errored"

\* C21: two calls on distinct requests whose decode events interleave share
\* no state: the result of each holds exactly the file records of its own
\* request, in its own declaration order and with its own bytes, and a call
\* is rejected only by a failure of its own decoder or streams.
C21_CallsShareNoState ==
    /\ OwnResult(Mine)
    /\ OwnResult(peer)

C21_Witness ==
    /\ ReturnedList
    /\ Len(returned.value.items) = 2
    /\ returned.value.items[1].name = "b"
    /\ returned.value.items[1].buffer # <<>>
    /\ peer.returned.state = "rejected"
    /\ Len(peer.files) = 1
    /\ peer.files[1].sent # <<>>
    /\ peer.files[1].stream = "errored"

\* The payload of a push or pushComment call: the data as it is, or the
\* framed comment.
PayloadOf(c) == IF c.fn = "push" THEN c.arg ELSE CommentPayload(c.arg)

\* C22: after any sequence of push and pushComment calls on a channel, the
\* writes on the response are the payloads of the calls in call order, one
\* write per call, none dropped, merged, queued or reordered, each with the
\* encoding utf8; and on a response that has flush, and whose write
\* returns, there are as many flushes as writes.
C22_WriteLogIsCallSequence ==
    /\ Writes(resCalls) =
          [i \in 1..Len(pushes) |->
              [op |-> "write", chunk |-> PayloadOf(pushes[i]), encoding |-> "utf8"]]
    /\ (res.hasFlush /\ res.throws # "write")
          => Len(OfKind(resCalls, {"flush"})) = Len(Writes(resCalls))
    /\ ~res.hasFlush => OfKind(resCalls, {"flush"}) = <<>>

C22_Witness ==
    /\ Len(pushes) = 2
    /\ pushes[1].fn = "pushComment"
    /\ pushes[2].fn = "push"
    /\ res.hasFlush
    /\ res.throws = "none"
    /\ Len(Writes(resCalls)) = 2
    /\ Writes(resCalls)[1].chunk = <<58, 32, 97, 10, 10>>
    /\ Writes(resCalls)[2].chunk = <<97>>
    /\ Len(OfKind(resCalls, {"flush"})) = 2

RECURSIVE SseLines(_)
\* The lines an event stream parser reads from a payload: a line ends at
\* '\r\n', at '\n' or at '\r'.
SseLines(s) ==
    IF s = <<>> THEN << <<>> >>
    ELSE IF Head(s) = 13 /\ Len(s) >= 2 /\ s[2] = 10
         THEN << <<>> >> \o SseLines(SubSeq(s, 3, Len(s)))
         ELSE IF Head(s) \in {10, 13}
              THEN << <<>> >> \o SseLines(Tail(s))
              ELSE LET rest == SseLines(Tail(s))
                   IN  << <<Head(s)>> \o Head(rest) >> \o Tail(rest)

\* Every non-empty line the parser reads from the payload begins with ':'.
OnlyCommentLines(payload) ==
    \A i \in 1..Len(SseLines(payload)) :
        SseLines(payload)[i] = <<>> \/ SseLines(payload)[i][1] = 58

\* C24: for every comment text, the payload pushComment writes holds comment
\* lines only: split at the line terminators of an event stream ('\n',
\* '\r', '\r\n'), every non-empty line of it begins with ':', also for a
\* text with '\r' or '\n' in it.
C24_OnlyCommentLines ==
    lastCall.fn = "pushComment"
        => \A i \in 1..Len(LastCalls) :
              LastCalls[i].op = "write" => OnlyCommentLines(LastCalls[i].chunk)

====
